---- MODULE Spec2Model ----
(***************************************************************************)
(* Model of drivers/gpu/msm/kgsl_sync.c: the KGSL sync timeline, its sync  *)
(* points and the fence-event pipeline kgsl_add_fence_event with its       *)
(* completion callback kgsl_fence_event_cb.                                *)
(*                                                                         *)
(* Every call of kgsl_add_fence_event allocates at most one event, one     *)
(* sync_pt, one sync_fence and one fd, so these objects are indexed by the *)
(* call that allocates them.                                               *)
(***************************************************************************)
EXTENDS Integers, FiniteSets, Sequences, TLC

(* ------------------------------ bounds ------------------------------- *)
\* width of the timestamp counter (unsigned int in the source, scaled down)
TsBits == 3
\* number of kgsl_add_fence_event calls
MaxCalls == 2

TsMod == 2 ^ TsBits
Timestamps == 0 .. (TsMod - 1)
\* the timestamps fences are requested for: the initial value, its successor,
\* the value half the range ahead and the value just before the wrap to 0
ReqTimestamps == {0, 1, TsMod \div 2, TsMod - 1}
Calls == 1 .. MaxCalls

(* ------------------------- program constants ------------------------- *)
EINVAL == 22
ENOMEM == 12
EFAULT == 14
\* sizeof(struct kgsl_timestamp_event_fence): one int, fence_fd
SizeofPriv == 4

\* ids known to the context registry; every context owns one timeline
Contexts == {1}
ContextIds == {1, 2}
Lengths == {SizeofPriv, SizeofPriv + 4}
\* NULL context pointer
NoContext == 0

VARIABLES
  call,            \* call[i]: locals of the i-th kgsl_add_fence_event
  req,             \* req[i]: the arguments the caller passed (context_id, len)
  event,           \* event[i]: struct kgsl_fence_event_priv of call i
  pt,              \* pt[i]: struct kgsl_sync_pt of call i
  fence,           \* fence[i]: struct sync_fence of call i
  fd,              \* fd[i]: the descriptor slot of call i in the caller's table
  out,             \* out[i]: the fd value has been copied to the caller's data
  registered,      \* registered[i]: the kgsl event of call i
  last_timestamp,  \* last_timestamp[c]: ktimeline->last_timestamp of context c
  signals,         \* signals[c]: history of the callbacks that signaled c
  cbFault,         \* cbFault[i]: freed objects the callback of call i touched
  cbSignaled,      \* cbSignaled[i]: has_signaled(pt[i]) right after its callback
  ops              \* the sync framework's use of kgsl_sync_timeline_ops:
                   \* ops.dup_of[j], the pt that pt[j] was duplicated from, and
                   \* ops.polled, the result of the last has_signaled query

vars == <<call, req, event, pt, fence, fd, out, registered, last_timestamp,
          signals, cbFault, cbSignaled, ops>>

(* ------------------------ timestamp ordering ------------------------- *)
\* (int)(a - b) of the counter's width: the difference mod 2^w read as signed
SignedDiff(a, b) ==
  LET d == (a - b) % TsMod
  IN  IF 2 * d >= TsMod THEN d - TsMod ELSE d

\* a and b are less than half the counter's range apart
InWindow(a, b) ==
  LET d == SignedDiff(a, b)
  IN  2 * d < TsMod /\ 2 * (-d) < TsMod

timestamp_cmp(a, b) ==
  LET d == SignedDiff(a, b)
  IN  IF d = 0 THEN 0 ELSE IF d > 0 THEN 1 ELSE -1

(* ----------------------------- sync points --------------------------- *)
NoPt == [alloc |-> FALSE, parent |-> NoContext, timestamp |-> 0,
         destroyed |-> 0, released |-> 0]

\* kgsl_sync_pt_create: a new sync_pt on timeline tl with kpt->timestamp set
kgsl_sync_pt_create(tl, timestamp) ==
  [alloc |-> TRUE, parent |-> tl, timestamp |-> timestamp,
   destroyed |-> 0, released |-> 0]

\* sync_pt_free: the memory of the pt is gone, and its timestamp with it
sync_pt_free(p) == [p EXCEPT !.timestamp = 0]

\* kgsl_sync_pt_destroy: sync_pt_free of a pt that was not added to a fence
kgsl_sync_pt_destroy(p) == [sync_pt_free(p) EXCEPT !.destroyed = @ + 1]

\* kgsl_sync_pt_dup: a new pt on the parent of p with the timestamp of p
kgsl_sync_pt_dup_zero(p) == kgsl_sync_pt_create(p.parent, 0)
kgsl_sync_pt_dup(p) == kgsl_sync_pt_create(p.parent, p.timestamp)

\* kgsl_sync_pt_compare: timestamp_cmp of the two pts' timestamps
kgsl_sync_pt_compare_same(a, b) == timestamp_cmp(a.timestamp, a.timestamp)
kgsl_sync_pt_compare_swapped(a, b) == timestamp_cmp(b.timestamp, a.timestamp)
kgsl_sync_pt_compare(a, b) ==
  LET ts_a == a.timestamp
      ts_b == b.timestamp
  IN  timestamp_cmp(ts_a, ts_b)

PtFrees(p) == p.destroyed + p.released
PtLive(p) == p.alloc /\ PtFrees(p) = 0

\* kgsl_sync_pt_has_signaled, reading the timeline's last_timestamp from last
kgsl_sync_pt_has_signaled_strict(p, last) ==
  IF timestamp_cmp(last[p.parent], p.timestamp) > 0 THEN 1 ELSE 0
kgsl_sync_pt_has_signaled_in(p, last) ==
  LET ts == p.timestamp
      last_ts == last[p.parent]
  IN  IF timestamp_cmp(last_ts, ts) >= 0 THEN 1 ELSE 0

kgsl_sync_pt_has_signaled(p) == kgsl_sync_pt_has_signaled_in(p, last_timestamp)

(* ------------------------------ timeline ----------------------------- *)
\* kgsl_sync_timeline_signal: the new last_timestamp of every timeline
kgsl_sync_timeline_signal_stale(timeline, timestamp) == last_timestamp
kgsl_sync_timeline_signal_add(timeline, timestamp) ==
  [last_timestamp EXCEPT ![timeline] = (@ + timestamp) % TsMod]
kgsl_sync_timeline_signal(timeline, timestamp) ==
  [last_timestamp EXCEPT ![timeline] = timestamp]

(* ------------------------------- fences ------------------------------ *)
NoFence == [alloc |-> FALSE, refs |-> 0, releases |-> 0]

\* sync_fence_create: the fence owns pt and holds one reference, the caller's
sync_fence_create_2refs == [alloc |-> TRUE, refs |-> 2, releases |-> 0]
sync_fence_create == [alloc |-> TRUE, refs |-> 1, releases |-> 0]

\* sync_fence_put: drops one reference; the drop to zero releases the fence,
\* which frees its sync_pt. A put on a fence that was already released reads
\* freed memory: the count is decremented and the release either does not run
\* or runs again. The set of the possible outcomes for fence f and its pt p.
sync_fence_put(f, p) ==
  LET released == [f |-> [f EXCEPT !.refs = @ - 1, !.releases = @ + 1],
                   p |-> [sync_pt_free(p) EXCEPT !.released = @ + 1]]
      dropped  == [f |-> [f EXCEPT !.refs = @ - 1], p |-> p]
  IN  IF f.refs = 1 THEN {released} ELSE {dropped, released}

FenceLive(f) == f.alloc /\ f.releases = 0

(* ------------------------------- events ------------------------------ *)
NoEvent == [alloc |-> FALSE, context |-> NoContext, frees |-> 0]
EventLive(e) == e.alloc /\ e.frees = 0

\* kfree(ev) at the end of kgsl_fence_event_cb
EventAfterCb_leak(e) == e
EventAfterCb(e) == [e EXCEPT !.frees = @ + 1]

\* kgsl_find_context: the context of context_id, NULL when the id is unknown
kgsl_find_context(context_id) ==
  IF context_id \in Contexts THEN context_id ELSE NoContext

\* line 120: context == NULL
ContextIsNull_never(context) == FALSE
ContextIsNull(context) == context = NoContext

\* the objects kgsl_fence_event_cb dereferences: priv, ev->context and
\* ev->context->timeline
CbAccesses_pt == {"event", "context", "timeline", "pt"}
CbAccesses == {"event", "context", "timeline"}

ObjFreed(i, o) ==
  CASE o = "event" -> event[i].frees > 0
    [] o = "pt"    -> PtFrees(pt[i]) > 0
    [] o = "fence" -> fence[i].releases > 0
    [] OTHER       -> FALSE

\* no duplicate, no query yet
NoDup == [of |-> 0, parent |-> NoContext, timestamp |-> 0]
NoPoll == -1

(* -------------------------------- Init ------------------------------- *)
NoLocals == [pc |-> "idle", context |-> NoContext, timestamp |-> 0, ret |-> 0]

\* kgsl_sync_timeline_create leaves last_timestamp = 0 on every timeline
Init ==
  /\ call = [i \in Calls |-> NoLocals]
  /\ req = [i \in Calls |-> [context_id |-> 0, len |-> 0]]
  /\ event = [i \in Calls |-> NoEvent]
  /\ pt = [i \in Calls |-> NoPt]
  /\ fence = [i \in Calls |-> NoFence]
  /\ fd = [i \in Calls |-> "none"]
  /\ out = [i \in Calls |-> FALSE]
  /\ registered = [i \in Calls |-> [state |-> "none", timestamp |-> 0]]
  /\ last_timestamp = [c \in Contexts |-> 0]
  /\ signals = [c \in Contexts |-> [count |-> 0, timestamp |-> 0]]
  /\ cbFault = [i \in Calls |-> {}]
  /\ cbSignaled = [i \in Calls |-> "none"]
  /\ ops = [dup_of |-> [i \in Calls |-> NoDup], polled |-> NoPoll]

(* ----------------------- kgsl_add_fence_event ------------------------ *)
Goto(i, label) == call' = [call EXCEPT ![i].pc = label]
\* return: the locals other than the result die
Return(i, r) == call' = [call EXCEPT ![i] = [NoLocals EXCEPT !.pc = "done", !.ret = r]]

\* kfree(event) of the unwinding
kfree(e) == [e EXCEPT !.frees = @ + 1]

\* lines 172-175: fail_fence, fail_pt
FailFence(i, r) ==
  /\ event' = [event EXCEPT ![i] = kfree(event[i])]
  /\ Return(i, r)

\* lines 169-175: fail_fd, falling through to fail_fence
FailFd(i, r) ==
  /\ \E o \in sync_fence_put(fence[i], pt[i]) :
       /\ fence' = [fence EXCEPT ![i] = o.f]
       /\ pt' = [pt EXCEPT ![i] = o.p]
  /\ FailFence(i, r)

\* lines 164-175: fail_event, fail_copy_fd, falling through to fail_fd
FailCopyFd(i, r) ==
  /\ \E o1 \in sync_fence_put(fence[i], pt[i]) :
       \E o \in sync_fence_put(o1.f, o1.p) :
         /\ fence' = [fence EXCEPT ![i] = o.f]
         /\ pt' = [pt EXCEPT ![i] = o.p]
  /\ fd' = [fd EXCEPT ![i] = "unused"]
  /\ FailFence(i, r)

\* lines 114-121: the length check and the context lookup
Enter(i, context_id, timestamp, len) ==
  /\ call[i].pc = "idle"
  /\ \A j \in Calls : j < i => call[j].pc # "idle"
  /\ req' = [req EXCEPT ![i] = [context_id |-> context_id, len |-> len]]
  /\ IF len # SizeofPriv
       THEN Return(i, -EINVAL)
       ELSE IF ContextIsNull(kgsl_find_context(context_id))
         THEN Return(i, -EINVAL)
         ELSE call' = [call EXCEPT ![i] = [pc |-> "alloc_event",
                         context |-> kgsl_find_context(context_id),
                         timestamp |-> timestamp, ret |-> -EINVAL]]
  /\ UNCHANGED <<event, pt, fence, fd, out, registered, last_timestamp,
                 signals, cbFault, cbSignaled, ops>>

\* lines 123-126: kzalloc of the callback state
AllocEvent(i, ok) ==
  /\ call[i].pc = "alloc_event"
  /\ IF ok
       THEN /\ event' = [event EXCEPT ![i] =
                 [alloc |-> TRUE, context |-> call[i].context, frees |-> 0]]
            /\ Goto(i, "create_pt")
       ELSE /\ event' = event
            /\ Return(i, -ENOMEM)
  /\ UNCHANGED <<req, pt, fence, fd, out, registered, last_timestamp,
                 signals, cbFault, cbSignaled, ops>>

\* lines 128-133, and the unwinding from fail_pt
CreatePt(i, ok) ==
  /\ call[i].pc = "create_pt"
  /\ IF ok
       THEN /\ pt' = [pt EXCEPT ![i] =
                 kgsl_sync_pt_create(call[i].context, call[i].timestamp)]
            /\ Goto(i, "create_fence")
            /\ event' = event
       ELSE /\ pt' = pt
            /\ FailFence(i, -ENOMEM)
  /\ UNCHANGED <<req, fence, fd, out, registered, last_timestamp,
                 signals, cbFault, cbSignaled, ops>>

\* lines 135-142, and the unwinding from fail_fence: on failure the pt, not
\* added to a fence, is destroyed here
CreateFence(i, ok) ==
  /\ call[i].pc = "create_fence"
  /\ IF ok
       THEN /\ fence' = [fence EXCEPT ![i] = sync_fence_create]
            /\ pt' = pt
            /\ Goto(i, "get_fd")
            /\ event' = event
       ELSE /\ fence' = fence
            /\ pt' = [pt EXCEPT ![i] = kgsl_sync_pt_destroy(pt[i])]
            /\ FailFence(i, -ENOMEM)
  /\ UNCHANGED <<req, fd, out, registered, last_timestamp,
                 signals, cbFault, cbSignaled, ops>>

\* lines 144-149: get_unused_fd_flags, and the unwinding from fail_fd
GetUnusedFd(i, ok) ==
  /\ call[i].pc = "get_fd"
  /\ IF ok
       THEN /\ fd' = [fd EXCEPT ![i] = "reserved"]
            /\ Goto(i, "install")
            /\ UNCHANGED <<event, pt, fence>>
       ELSE /\ fd' = fd
            /\ FailFd(i, -EINVAL)
  /\ UNCHANGED <<req, out, registered, last_timestamp,
                 signals, cbFault, cbSignaled, ops>>

\* line 150: the reserved slot now points at the fence and owns the reference
\* that sync_fence_create returned
sync_fence_install(i) ==
  /\ call[i].pc = "install"
  /\ fd' = [fd EXCEPT ![i] = "installed"]
  /\ Goto(i, "copy_to_user")
  /\ UNCHANGED <<req, event, pt, fence, out, registered, last_timestamp,
                 signals, cbFault, cbSignaled, ops>>

\* line 153: the result of a failed copy_to_user
CopyFault_unset == -EINVAL
CopyFault == -EFAULT

\* lines 152-155, and the unwinding from fail_copy_fd
CopyToUser_ignore(i, ok) ==
  /\ call[i].pc = "copy_to_user"
  /\ out' = [out EXCEPT ![i] = ok]
  /\ Goto(i, "add_event")
  /\ UNCHANGED <<req, event, pt, fence, fd, registered, last_timestamp,
                 signals, cbFault, cbSignaled, ops>>
CopyToUser(i, ok) ==
  /\ call[i].pc = "copy_to_user"
  /\ IF ok
       THEN /\ out' = [out EXCEPT ![i] = TRUE]
            /\ Goto(i, "add_event")
            /\ UNCHANGED <<event, pt, fence, fd>>
       ELSE /\ out' = out
            /\ FailCopyFd(i, CopyFault)
  /\ UNCHANGED <<req, registered, last_timestamp,
                 signals, cbFault, cbSignaled, ops>>

\* lines 157-162, and the unwinding from fail_event: kgsl_add_event registers
\* the callback for timestamp, or fails with an error code and registers
\* nothing
AddEvent(i, err) ==
  /\ call[i].pc = "add_event"
  /\ IF err = 0
       THEN /\ registered' = [registered EXCEPT ![i] =
                 [state |-> "pending", timestamp |-> call[i].timestamp]]
            /\ Return(i, 0)
            /\ UNCHANGED <<event, pt, fence, fd>>
       ELSE /\ registered' = registered
            /\ FailCopyFd(i, -err)
  /\ UNCHANGED <<req, out, last_timestamp,
                 signals, cbFault, cbSignaled, ops>>

(* ------------------------- descriptor holder ------------------------- *)
\* the caller's process closes the installed descriptor: the table's reference
\* to the fence is dropped
Close(i) ==
  /\ fd[i] = "installed"
  /\ fd' = [fd EXCEPT ![i] = "closed"]
  /\ \E o \in sync_fence_put(fence[i], pt[i]) :
       /\ fence' = [fence EXCEPT ![i] = o.f]
       /\ pt' = [pt EXCEPT ![i] = o.p]
  /\ UNCHANGED <<call, req, event, out, registered, last_timestamp,
                 signals, cbFault, cbSignaled, ops>>

(* -------------------------- event subsystem -------------------------- *)
\* lines 84-90: the device retires the timestamp of a registered event and the
\* event subsystem calls its callback, once, with that timestamp
kgsl_fence_event_cb(i) ==
  LET ev == event[i]
      timestamp == registered[i].timestamp
      last == kgsl_sync_timeline_signal(ev.context, timestamp)
  IN  /\ registered[i].state = "pending"
      /\ last_timestamp' = last
      /\ event' = [event EXCEPT ![i] = EventAfterCb(ev)]
      /\ registered' = [registered EXCEPT ![i].state = "fired"]
      /\ signals' = [signals EXCEPT ![ev.context] =
                       [count |-> @.count + 1, timestamp |-> timestamp]]
      /\ cbFault' = [cbFault EXCEPT ![i] = {o \in CbAccesses : ObjFreed(i, o)}]
      /\ cbSignaled' = [cbSignaled EXCEPT ![i] =
                          IF ~PtLive(pt[i]) THEN "freed"
                          ELSE IF kgsl_sync_pt_has_signaled_in(pt[i], last) = 1
                            THEN "signaled" ELSE "unsignaled"]
      /\ UNCHANGED <<call, req, pt, fence, fd, out, ops>>

(* ---------------------------- specification -------------------------- *)
Next ==
  \/ \E i \in Calls, c \in ContextIds, t \in ReqTimestamps, l \in Lengths :
       Enter(i, c, t, l)
  \/ \E i \in Calls, ok \in BOOLEAN : AllocEvent(i, ok)
  \/ \E i \in Calls, ok \in BOOLEAN : CreatePt(i, ok)
  \/ \E i \in Calls, ok \in BOOLEAN : CreateFence(i, ok)
  \/ \E i \in Calls, ok \in BOOLEAN : GetUnusedFd(i, ok)
  \/ \E i \in Calls : sync_fence_install(i)
  \/ \E i \in Calls, ok \in BOOLEAN : CopyToUser(i, ok)
  \/ \E i \in Calls, err \in {0, EINVAL, ENOMEM} : AddEvent(i, err)
  \/ \E i \in Calls : Close(i)
  \/ \E i \in Calls : kgsl_fence_event_cb(i)

Spec == Init /\ [][Next]_vars

\* the event subsystem calls the callback of every registered event
FairSpec == Spec /\ \A i \in Calls : WF_vars(kgsl_fence_event_cb(i))

(* ------------------------ the timeline's ops ------------------------- *)
\* the sync framework and the driver use the pt operations and the timeline
\* directly: pt[i] is the i-th sync_pt created, on the timeline of context c

\* kgsl_sync_pt_create, or NULL when the allocation fails
OpsCreate(i, c, timestamp, ok) ==
  /\ ~pt[i].alloc
  /\ \A j \in Calls : j < i => pt[j].alloc
  /\ pt' = IF ok THEN [pt EXCEPT ![i] = kgsl_sync_pt_create(c, timestamp)] ELSE pt
  /\ UNCHANGED <<call, req, event, fence, fd, out, registered, last_timestamp,
                 signals, cbFault, cbSignaled, ops>>

\* .dup = kgsl_sync_pt_dup: pt[j] becomes the duplicate of the live pt[i]
OpsDup(i, j, ok) ==
  /\ PtLive(pt[i])
  /\ ~pt[j].alloc
  /\ \A k \in Calls : k < j => pt[k].alloc
  /\ IF ok
       THEN /\ pt' = [pt EXCEPT ![j] = kgsl_sync_pt_dup(pt[i])]
            /\ ops' = [ops EXCEPT !.dup_of[j] =
                 [of |-> i, parent |-> pt[i].parent, timestamp |-> pt[i].timestamp]]
       ELSE UNCHANGED <<pt, ops>>
  /\ UNCHANGED <<call, req, event, fence, fd, out, registered, last_timestamp,
                 signals, cbFault, cbSignaled>>

\* kgsl_sync_pt_destroy of a pt that is in no fence
OpsDestroy(i) ==
  /\ PtLive(pt[i])
  /\ pt' = [pt EXCEPT ![i] = kgsl_sync_pt_destroy(pt[i])]
  /\ UNCHANGED <<call, req, event, fence, fd, out, registered, last_timestamp,
                 signals, cbFault, cbSignaled, ops>>

\* .has_signaled = kgsl_sync_pt_has_signaled: a query, it writes nothing but
\* its result
OpsHasSignaled(i) ==
  /\ PtLive(pt[i])
  /\ ops' = [ops EXCEPT !.polled = kgsl_sync_pt_has_signaled(pt[i])]
  /\ UNCHANGED <<call, req, event, pt, fence, fd, out, registered,
                 last_timestamp, signals, cbFault, cbSignaled>>

\* kgsl_sync_timeline_signal with any timestamp
OpsSignal(c, timestamp) ==
  /\ last_timestamp' = kgsl_sync_timeline_signal(c, timestamp)
  /\ UNCHANGED <<call, req, event, pt, fence, fd, out, registered,
                 signals, cbFault, cbSignaled, ops>>

OpsNext ==
  \/ \E i \in Calls, c \in Contexts, t \in Timestamps, ok \in BOOLEAN :
       OpsCreate(i, c, t, ok)
  \/ \E i, j \in Calls, ok \in BOOLEAN : OpsDup(i, j, ok)
  \/ \E i \in Calls : OpsDestroy(i)
  \/ \E i \in Calls : OpsHasSignaled(i)
  \/ \E c \in Contexts, t \in Timestamps : OpsSignal(c, t)

OpsSpec == Init /\ [][OpsNext]_vars

(* ------------------------------ claims ------------------------------- *)
Done(i) == call[i].pc = "done"
Failed(i) == Done(i) /\ call[i].ret # 0
Succeeded(i) == Done(i) /\ call[i].ret = 0 /\ req[i].len # 0

\* C1: every sync_pt that kgsl_add_fence_event allocated is released exactly
\* once, by kgsl_sync_pt_destroy (only when sync_fence_create failed) or by the
\* fence's last reference drop, never by both and never by neither; when
\* get_unused_fd_flags fails the pt is released once, by the fence.
C1_ExactlyOnceRelease ==
  \A i \in Calls : pt[i].alloc =>
    /\ PtFrees(pt[i]) <= 1
    /\ (pt[i].destroyed > 0 => ~fence[i].alloc)
    /\ (Failed(i) => PtFrees(pt[i]) = 1)
    /\ (Succeeded(i) /\ fd[i] = "closed" => PtFrees(pt[i]) = 1)
    /\ (Failed(i) /\ fence[i].alloc /\ fd[i] = "none" =>
          pt[i].destroyed = 0 /\ pt[i].released = 1)

\* C2: kgsl_add_fence_event is all-or-nothing: after an error no descriptor is
\* reserved or installed, no descriptor value was copied to the caller and no
\* event, pt or fence of the call is live; after success the descriptor was
\* installed and copied out and the callback is registered.
C2_AllOrNothing ==
  \A i \in Calls :
    /\ Failed(i) =>
         /\ fd[i] \notin {"reserved", "installed"}
         /\ ~out[i]
         /\ ~EventLive(event[i]) /\ ~PtLive(pt[i]) /\ ~FenceLive(fence[i])
         /\ registered[i].state = "none"
    /\ Succeeded(i) =>
         /\ fd[i] \in {"installed", "closed"}
         /\ out[i]
         /\ registered[i].state # "none"

\* C3: when copy_to_user or kgsl_add_event fails after the install, the
\* unwinding drops exactly the references acquired: the fence's count reaches
\* zero once and never goes below zero, the descriptor slot is released and the
\* event is freed once.
C3_UnwindBalanced ==
  \A i \in Calls :
    /\ fence[i].refs >= 0
    /\ fence[i].releases <= 1
    /\ (Failed(i) /\ fd[i] = "unused" =>
          fence[i].refs = 0 /\ fence[i].releases = 1 /\ event[i].frees = 1)

\* C4: last_timestamp never moves backward under timestamp_cmp, whatever
\* callbacks fire (stated for the steps whose old and new value are less than
\* half the counter's range apart, where timestamp_cmp orders them).
C4_LastRetiredMonotonic ==
  [][\A c \in Contexts :
       InWindow(last_timestamp'[c], last_timestamp[c]) =>
         timestamp_cmp(last_timestamp'[c], last_timestamp[c]) >= 0]_vars

\* a step that calls kgsl_sync_timeline_signal on the timeline of pt[i] with a
\* timestamp that is not before the pt's
DominatingSignal(i) ==
  LET c == pt[i].parent
  IN  /\ signals'[c].count # signals[c].count
      /\ timestamp_cmp(signals'[c].timestamp, pt[i].timestamp) >= 0

\* C5: a live pt is unsignaled until kgsl_sync_timeline_signal is called with a
\* timestamp not before its own, and signaled in every state from then on
\* (stated for the steps in which the pt's timestamp and the timeline's old and
\* new last_timestamp are less than half the counter's range apart).
C5_SignaledOnceDominated ==
  [][\A i \in Calls :
       (/\ PtLive(pt[i]) /\ PtLive(pt'[i])
        /\ InWindow(last_timestamp[pt[i].parent], pt[i].timestamp)
        /\ InWindow(last_timestamp'[pt[i].parent], pt[i].timestamp)
        /\ InWindow(last_timestamp'[pt[i].parent], last_timestamp[pt[i].parent])) =>
       ((kgsl_sync_pt_has_signaled_in(pt'[i], last_timestamp') = 1) <=>
        (kgsl_sync_pt_has_signaled(pt[i]) = 1 \/ DominatingSignal(i)))]_vars

\* C6: every event that kgsl_add_fence_event allocated is freed exactly once:
\* by the callback once registered, by the unwinding when a step failed; never
\* by both, and the callback never reads an event that was freed.
C6_EventFreedOnce ==
  \A i \in Calls :
    /\ event[i].frees <= 1
    /\ (Failed(i) /\ event[i].alloc => event[i].frees = 1 /\ registered[i].state = "none")
    /\ (registered[i].state = "fired" => event[i].frees = 1)
    /\ (registered[i].state = "pending" => EventLive(event[i]))
    /\ "event" \notin cbFault[i]

C6_Witness ==
  \E i, j \in Calls :
    /\ registered[i].state = "fired" /\ event[i].frees = 1
    /\ Failed(j) /\ event[j].frees = 1

\* C7: the descriptor can be closed while the event is pending, and the
\* callback that fires afterwards touches no freed object.
C7_CallbackTouchesNoFreed ==
  \A i \in Calls :
    /\ cbFault[i] = {}
    /\ (fd[i] = "installed" => ENABLED Close(i))

C7_Witness ==
  \E i \in Calls :
    /\ registered[i].state = "fired"
    /\ fd[i] = "closed"
    /\ cbSignaled[i] = "freed"

\* C8: a call with an unknown context_id or a wrong len returns -EINVAL and
\* allocates nothing, writes nothing and registers nothing.
C8_UnknownContextRejected ==
  \A i \in Calls :
    (req[i].len # 0 /\ (req[i].context_id \notin Contexts \/ req[i].len # SizeofPriv)) =>
      /\ Done(i) /\ call[i].ret = -EINVAL
      /\ ~event[i].alloc /\ ~pt[i].alloc /\ ~fence[i].alloc
      /\ fd[i] = "none" /\ ~out[i]
      /\ registered[i].state = "none"

C8_Witness ==
  \E i \in Calls :
    /\ req[i].context_id \notin Contexts /\ req[i].len = SizeofPriv
    /\ Done(i) /\ call[i].ret = -EINVAL

\* C9: right after the callback of a successful call, the call's pt (if it is
\* still live) is signaled; and the callback of a registered event is
\* eventually called.
C9_SignaledAfterCallback ==
  /\ [](\A i \in Calls : cbSignaled[i] # "unsignaled")
  /\ \A i \in Calls :
       (registered[i].state = "pending") ~> (cbSignaled[i] \in {"signaled", "freed"})

C9_Witness ==
  \E i \in Calls :
    /\ Succeeded(i)
    /\ registered[i].timestamp # 0
    /\ cbSignaled[i] = "signaled"

\* C10: a second kgsl_sync_timeline_signal with the same timestamp, directly
\* after the first on that timeline, changes neither last_timestamp nor the
\* has_signaled result of any live pt.
C10_AdvanceIdempotent ==
  [][\A c \in Contexts :
       (/\ signals[c].count > 0
        /\ signals'[c].count = signals[c].count + 1
        /\ signals'[c].timestamp = signals[c].timestamp) =>
         /\ last_timestamp'[c] = last_timestamp[c]
         /\ \A i \in Calls : (PtLive(pt[i]) /\ pt[i].parent = c) =>
              kgsl_sync_pt_has_signaled_in(pt'[i], last_timestamp') =
              kgsl_sync_pt_has_signaled(pt[i])]_vars

C10_Witness ==
  \E i, j \in Calls :
    /\ i # j
    /\ registered[i].state = "fired" /\ registered[j].state = "fired"
    /\ registered[i].timestamp = registered[j].timestamp
    /\ registered[i].timestamp # 0
    /\ \E k \in Calls : PtLive(pt[k])

\* C11: the duplicate of a pt is another pt on the same timeline with the same
\* timestamp, so has_signaled agrees on the two after any signals; destroying
\* one of them leaves the other's parent, timestamp and has_signaled result
\* unchanged.
C11_DuplicateAgrees ==
  /\ [](\A j \in Calls :
          LET d == ops.dup_of[j]
          IN  (d.of # 0 /\ PtLive(pt[j])) =>
                /\ j # d.of
                /\ pt[j].parent = d.parent
                /\ pt[j].timestamp = d.timestamp
                /\ (PtLive(pt[d.of]) =>
                      kgsl_sync_pt_has_signaled(pt[j]) =
                      kgsl_sync_pt_has_signaled(pt[d.of])))
  /\ [][\A i \in Calls :
          (/\ PtLive(pt[i]) /\ PtLive(pt'[i])
           /\ \E k \in Calls : k # i /\ PtLive(pt[k]) /\ ~PtLive(pt'[k])) =>
            /\ pt'[i] = pt[i]
            /\ kgsl_sync_pt_has_signaled_in(pt'[i], last_timestamp') =
               kgsl_sync_pt_has_signaled(pt[i])]_vars

C11_Witness ==
  \E j \in Calls :
    /\ ops.dup_of[j].of # 0
    /\ PtLive(pt[j])
    /\ ~PtLive(pt[ops.dup_of[j].of])
    /\ pt[j].timestamp = 1
    /\ last_timestamp[pt[j].parent] = 2
    /\ kgsl_sync_pt_has_signaled(pt[j]) = 1

\* C12: for two timestamps less than half the counter's range apart the
\* comparison is antisymmetric: a is after b iff b is before a, and the result
\* is equal iff the timestamps are the same, also across the wrap to 0.
C12_CompareAntisymmetric ==
  \A i, j \in Calls :
    (PtLive(pt[i]) /\ PtLive(pt[j]) /\ InWindow(pt[i].timestamp, pt[j].timestamp)) =>
      /\ (kgsl_sync_pt_compare(pt[i], pt[j]) = 1 <=> kgsl_sync_pt_compare(pt[j], pt[i]) = -1)
      /\ (kgsl_sync_pt_compare(pt[i], pt[j]) = 0 <=> pt[i].timestamp = pt[j].timestamp)
      /\ (pt[i].timestamp = pt[j].timestamp <=> kgsl_sync_pt_compare(pt[j], pt[i]) = 0)

C12_Witness ==
  \E i, j \in Calls :
    /\ PtLive(pt[i]) /\ PtLive(pt[j])
    /\ pt[i].timestamp = TsMod - 1 /\ pt[j].timestamp = 0
    /\ kgsl_sync_pt_compare(pt[i], pt[j]) = -1
    /\ kgsl_sync_pt_compare(pt[j], pt[i]) = 1

\* C13: has_signaled of a pt is true exactly when the timeline's current
\* last_timestamp is equal to or after the pt's timestamp and false exactly
\* when it is before; the query changes neither the timeline nor any pt.
C13_HasSignaledIsCompare ==
  /\ [](\A i \in Calls : PtLive(pt[i]) =>
          LET c == timestamp_cmp(last_timestamp[pt[i].parent], pt[i].timestamp)
          IN  /\ (kgsl_sync_pt_has_signaled(pt[i]) = 1 <=> c \in {0, 1})
              /\ (kgsl_sync_pt_has_signaled(pt[i]) = 0 <=> c = -1))
  /\ [][ops'.polled # ops.polled =>
          /\ pt' = pt /\ last_timestamp' = last_timestamp
          /\ \E i \in Calls :
               /\ PtLive(pt[i])
               /\ ops'.polled =
                    IF timestamp_cmp(last_timestamp[pt[i].parent], pt[i].timestamp) >= 0
                      THEN 1 ELSE 0]_vars

C13_Witness ==
  /\ ops.polled = 1
  /\ \E i \in Calls :
       /\ PtLive(pt[i])
       /\ pt[i].timestamp = TsMod - 1
       /\ last_timestamp[pt[i].parent] = pt[i].timestamp
  /\ \A i \in Calls : PtLive(pt[i]) => kgsl_sync_pt_has_signaled(pt[i]) = 1

\* C14: closing the descriptor of one fence frees that fence's pt and changes
\* nothing else on the timeline: last_timestamp, and every other pt with its
\* timestamp and its has_signaled result.
C14_ReleaseFrame ==
  [][\A i \in Calls :
       (fd[i] = "installed" /\ fd'[i] = "closed") =>
         /\ PtLive(pt[i]) /\ PtFrees(pt'[i]) = 1
         /\ last_timestamp' = last_timestamp
         /\ \A j \in Calls : j # i =>
              /\ pt'[j] = pt[j]
              /\ (PtLive(pt[j]) =>
                    kgsl_sync_pt_has_signaled_in(pt'[j], last_timestamp') =
                    kgsl_sync_pt_has_signaled(pt[j]))]_vars

C14_Witness ==
  \E i, j \in Calls :
    /\ i # j
    /\ registered[i].state = "fired"
    /\ fd[i] = "closed" /\ PtFrees(pt[i]) = 1
    /\ PtLive(pt[j])
    /\ timestamp_cmp(pt[j].timestamp, registered[i].timestamp) = 1
    /\ kgsl_sync_pt_has_signaled(pt[j]) = 0

\* a call that failed in copy_to_user: the slot was given back and nothing was
\* copied out
CopyOutFailed(i) == Failed(i) /\ fd[i] = "unused" /\ ~out[i]

\* C15 as claimed: when copy_to_user fails, kgsl_add_fence_event returns
\* -EINVAL.
C15_CopyFailReturnsEINVAL ==
  \A i \in Calls : CopyOutFailed(i) => call[i].ret = -EINVAL

\* C15, amended: when copy_to_user fails, kgsl_add_fence_event returns -EFAULT.
C15_CopyFailReturnsEFAULT ==
  \A i \in Calls : CopyOutFailed(i) => call[i].ret = -EFAULT

C15_Witness ==
  \E i \in Calls : CopyOutFailed(i) /\ event[i].frees = 1

\* last_timestamp of c before and after the step and the timestamps of the
\* live pts on c
LiveValues(c) ==
  {last_timestamp[c], last_timestamp'[c]} \cup
  {pt[i].timestamp : i \in {k \in Calls : PtLive(pt[k]) /\ pt[k].parent = c}}

\* C16: when the callbacks of a timeline fire one at a time with timestamps in
\* non-decreasing order and last_timestamp and the live pts' timestamps are
\* less than half the counter's range apart, last_timestamp does not move
\* backward and a pt that is signaled stays signaled.
C16_OrderedCallbacksMonotonic ==
  [][\A c \in Contexts :
       (/\ signals'[c].count = signals[c].count + 1
        /\ (signals[c].count > 0 =>
              timestamp_cmp(signals'[c].timestamp, signals[c].timestamp) >= 0)
        /\ \A a, b \in LiveValues(c) : InWindow(a, b)) =>
         /\ timestamp_cmp(last_timestamp'[c], last_timestamp[c]) >= 0
         /\ \A i \in Calls :
              (/\ PtLive(pt[i]) /\ PtLive(pt'[i]) /\ pt[i].parent = c
               /\ kgsl_sync_pt_has_signaled(pt[i]) = 1) =>
                kgsl_sync_pt_has_signaled_in(pt'[i], last_timestamp') = 1]_vars

\* the steps of kgsl_add_fence_event that have succeeded form a prefix of
\* kzalloc, kgsl_sync_pt_create, sync_fence_create, get_unused_fd_flags,
\* copy_to_user
StepsInOrder(i) ==
  /\ out[i] => fd[i] \in {"installed", "closed", "unused"}
  /\ fd[i] # "none" => fence[i].alloc
  /\ fence[i].alloc => pt[i].alloc
  /\ pt[i].alloc => event[i].alloc
  /\ event[i].alloc => req[i].len = SizeofPriv /\ req[i].context_id \in Contexts

\* what has succeeded when the call stands before each step
StepPrecondition(i) ==
  /\ call[i].pc = "create_pt" => event[i].alloc /\ ~pt[i].alloc
  /\ call[i].pc = "create_fence" => pt[i].alloc /\ ~fence[i].alloc
  /\ call[i].pc = "get_fd" => fence[i].alloc /\ fd[i] = "none"
  /\ call[i].pc = "install" => fd[i] = "reserved"
  /\ call[i].pc = "copy_to_user" => fd[i] \in {"installed", "closed"} /\ ~out[i]
  /\ call[i].pc = "add_event" => out[i] /\ registered[i].state = "none"

\* C17: kgsl_add_event is the last step of kgsl_add_fence_event, reached only
\* after the context lookup, kzalloc, kgsl_sync_pt_create, sync_fence_create,
\* get_unused_fd_flags, sync_fence_install and copy_to_user have succeeded in
\* that order; the first failing step ends the call and no later step runs, so
\* a failed call has no callback registered and none fires for it.
C17_RegistrationLast ==
  \A i \in Calls :
    /\ StepsInOrder(i)
    /\ StepPrecondition(i)
    /\ registered[i].state # "none" =>
         /\ Succeeded(i)
         /\ event[i].alloc /\ pt[i].alloc /\ fence[i].alloc /\ out[i]
    /\ Failed(i) =>
         /\ registered[i].state = "none"
         /\ cbSignaled[i] = "none"
         /\ cbFault[i] = {}

\* one call failed in copy_to_user or kgsl_add_event and registered nothing,
\* another passed every step and its callback has fired
C17_Witness ==
  \E i, j \in Calls :
    /\ Failed(i) /\ fd[i] = "unused" /\ registered[i].state = "none"
    /\ Succeeded(j) /\ registered[j].state = "fired"

\* pts a and b are live on one timeline, a is not after b, and b is signaled
PeerSignaled(a, b) ==
  /\ a # b
  /\ PtLive(pt[a]) /\ PtLive(pt[b])
  /\ pt[a].parent = pt[b].parent
  /\ kgsl_sync_pt_compare(pt[a], pt[b]) # 1
  /\ kgsl_sync_pt_has_signaled(pt[b]) = 1

\* last_timestamp and the timestamps of pts a and b
PeerValues(a, b) ==
  {last_timestamp[pt[a].parent], pt[a].timestamp, pt[b].timestamp}

\* the values of S lie in one stretch of the counter shorter than half its
\* range: each is less than half the range ahead of the first of them
OneArc(S) == \E lo \in S : \A x \in S : 2 * ((x - lo) % TsMod) < TsMod

\* C18 as claimed: for two pts a and b on one timeline with a not after b,
\* b signaled implies a signaled whenever last_timestamp and the two
\* timestamps are, each pair of them, less than half the counter's range apart.
C18_PeerOrderPairwise ==
  \A a, b \in Calls :
    (/\ PeerSignaled(a, b)
     /\ \A x, y \in PeerValues(a, b) : InWindow(x, y)) =>
      kgsl_sync_pt_has_signaled(pt[a]) = 1

\* C18: for two pts a and b on one timeline with a not after b, b signaled
\* implies a signaled whenever last_timestamp and the two timestamps lie in
\* one stretch of the counter shorter than half its range.
C18_PeerOrderOneArc ==
  \A a, b \in Calls :
    (PeerSignaled(a, b) /\ OneArc(PeerValues(a, b))) =>
      kgsl_sync_pt_has_signaled(pt[a]) = 1

\* a before b before last_timestamp across the wrap to 0, both signaled
C18_Witness ==
  \E a, b \in Calls :
    /\ PeerSignaled(a, b)
    /\ OneArc(PeerValues(a, b))
    /\ pt[a].timestamp = TsMod - 1
    /\ pt[b].timestamp = 0
    /\ last_timestamp[pt[a].parent] = 1
    /\ kgsl_sync_pt_compare(pt[a], pt[b]) = -1
    /\ kgsl_sync_pt_has_signaled(pt[a]) = 1

====
